---- MODULE Spec2Model ----
(***************************************************************************)
(* Dispatch-reliability engine of the communication service: the per-      *)
(* channel circuit breakers, the rate-limit semaphores, the tenacity retry *)
(* wrappers and the two dispatch coroutines SMSService.send_sms and        *)
(* EmailService.send_email.                                                *)
(*                                                                         *)
(* Granularity: one action per stretch of a coroutine that runs without    *)
(* suspending.  The circuit-breaker methods are plain synchronous methods  *)
(* (no await inside), so on one event loop each of them runs within one    *)
(* step of the dispatch that calls it.  A dispatch suspends at the         *)
(* semaphore (when no permit is free), at every transport attempt and in   *)
(* every backoff sleep.                                                    *)
(*                                                                         *)
(* The two services are separate objects that share no field: each owns    *)
(* its breaker and its semaphore.  A behaviour follows one of them, the    *)
(* one `channel` names; both are explored.                                 *)
(***************************************************************************)
EXTENDS Integers, FiniteSets, Sequences, TLC

\* ------------------------------------------------------------------ bounds
MaxTasks == 2            \* dispatch coroutines that can be live at once
MaxTime  == 60           \* the clock stops advancing here (seconds)
Quantum  == 30           \* smallest clock advance that is modelled (seconds)
MaxStopAfter == 8        \* largest stop_after_attempt setting the retry loop is run with

\* ------------------------------------------------------- settings (config)
sms_rate_limit == 1                    \* configured capacity (default 10)
email_rate_limit == 1                  \* configured capacity (default 5)
sms_retry_attempts == 3
email_retry_attempts == 3
sms_circuit_breaker_threshold == 5
email_circuit_breaker_threshold == 3
sms_circuit_breaker_timeout == 60
email_circuit_breaker_timeout == 60

Channels == {"sms", "email"}
Tasks    == 1..MaxTasks
None     == -1                          \* Python None for a timestamp

rate_limit(c) == IF c = "sms" THEN sms_rate_limit ELSE email_rate_limit
retry_attempts(c) == IF c = "sms" THEN sms_retry_attempts ELSE email_retry_attempts
threshold(c) ==
  IF c = "sms" THEN sms_circuit_breaker_threshold ELSE email_circuit_breaker_threshold
timeout(c) ==
  IF c = "sms" THEN sms_circuit_breaker_timeout ELSE email_circuit_breaker_timeout

VARIABLES
  channel,            \* the service followed: "sms" (SMSService) or "email" (EmailService)
  now,                \* datetime.now(), in seconds
  failure_count,      \* breaker field failure_count
  last_failure_time,  \* breaker field last_failure_time (a time or None)
  permits,            \* rate_limit_semaphore._value
  pc,                 \* [task -> where the dispatch coroutine stands]
  attempt,            \* [task -> tenacity attempt_number = transport calls made]
  err,                \* [task -> the exception tenacity is sleeping on, in backoff]
  result,             \* [task -> how the dispatch ended]
  last_check,         \* what the latest breaker check did: "open", "reset", "pass" ("none" before)
  audit,              \* [task -> entries its dispatch has handed to the audit logger]
  delivered,          \* [task -> the transport accepted the message of its dispatch]
  streak,             \* the latest dispatches of the caller, when each ended in a transport failure
  stop_max,           \* retry loop alone: max_attempt_number of stop_after_attempt
  retry_state,        \* retry loop alone: tenacity's attempt_number, the sleep chosen, the phase
  request,            \* request handling alone: the SMSRequest / EmailRequest of the call
  wire,               \* request handling alone: what is handed to the transport and the logger
  is_running,         \* OTPConsumerService.is_running
  consumer_thread,    \* OTPConsumerService.consumer_thread: a thread, or NoThread
  thread,             \* [thread -> where it stands in _consume_messages]
  connected,          \* broker: the connection is open
  callbacks,          \* broker: the queues a callback is registered for
  stop_signal,        \* broker: stop_consuming was called since the consume call began
  main,               \* the call of start_consuming / stop_consuming under way and its step
  last,               \* the call that ended last, and how
  stops,              \* stop_consuming calls that have returned since start_consuming was last called
  joined,             \* the stop_consuming call under way has made its join
  started,            \* a start_consuming call has returned and stop_consuming was not called since
  message_data,       \* OTP handler: the message handed to handle_email_otp / handle_sms_otp
  handler,            \* OTP handler: where the call stands, the request built, what it returned
  response,           \* HTTP route: the status code answered, and what the dispatch ended with
  frames,             \* threads on one breaker: the method each is in, its line and its locals
  sms_logger          \* AsyncCSVLogger: buffer, buffer_lock, the log file, and who is where in it

dvars == <<channel, now, failure_count, last_failure_time, permits, pc, attempt, err, result,
           last_check>>
\* The audit logger and the history of outcomes, followed for one caller only.
gvars == <<audit, delivered, streak>>
rvars == <<stop_max, retry_state>>
\* The variables of the other specifications, which a dispatch never touches.
ivars == <<request, wire>>
cvars == <<is_running, consumer_thread, thread, connected, callbacks, stop_signal, main, last,
           stops, joined, started>>
\* Threads sharing a service, and the audit logger.
avars == <<frames, sms_logger>>
ovars == <<rvars, ivars, cvars, avars>>
\* The callers of a dispatch: the OTP handler and the HTTP route.
hvars == <<message_data, handler, response>>
vars == <<dvars, gvars, ovars, hvars>>

\* --------------------------------------------------------- circuit breaker
\* A breaker is the pair of fields; every method returns the fields it leaves.
Breaker == [failure_count |-> failure_count, last_failure_time |-> last_failure_time]

\* Mutant: the breaker opens one failure late (> for >=).
_is_circuit_breaker_open_gt(b, t) ==
  IF b.failure_count > sms_circuit_breaker_threshold
  THEN IF b.last_failure_time # None
       THEN IF t - b.last_failure_time < sms_circuit_breaker_timeout
            THEN [ret |-> TRUE, b |-> b]
            ELSE [ret |-> FALSE, b |-> [failure_count |-> 0, last_failure_time |-> None]]
       ELSE [ret |-> FALSE, b |-> b]
  ELSE [ret |-> FALSE, b |-> b]

\* Mutant: the reset forgets to clear last_failure_time.
_is_circuit_breaker_open_keeps_time(b, t) ==
  IF b.failure_count >= sms_circuit_breaker_threshold
  THEN IF b.last_failure_time # None
       THEN IF t - b.last_failure_time < sms_circuit_breaker_timeout
            THEN [ret |-> TRUE, b |-> b]
            ELSE [ret |-> FALSE, b |-> [b EXCEPT !.failure_count = 0]]
       ELSE [ret |-> FALSE, b |-> b]
  ELSE [ret |-> FALSE, b |-> b]

\* SMSService._is_circuit_breaker_open: the value returned and the fields after.
_is_circuit_breaker_open(b, t) ==
  IF b.failure_count >= sms_circuit_breaker_threshold
  THEN IF b.last_failure_time # None
       THEN IF t - b.last_failure_time < sms_circuit_breaker_timeout
            THEN [ret |-> TRUE, b |-> b]
            ELSE [ret |-> FALSE, b |-> [failure_count |-> 0, last_failure_time |-> None]]
       ELSE [ret |-> FALSE, b |-> b]
  ELSE [ret |-> FALSE, b |-> b]

\* SMSService._record_failure
_record_failure(b, t) ==
  [failure_count |-> b.failure_count + 1, last_failure_time |-> t]

\* Mutant: the success leaves last_failure_time as it was.
_record_success_keeps_time(b) ==
  [failure_count |-> 0, last_failure_time |-> b.last_failure_time]

\* SMSService._record_success
_record_success(b) ==
  [failure_count |-> 0, last_failure_time |-> None]

\* Mutant: the window is closed one instant late (<= for <).
is_open_le(b, t) ==
  IF b.failure_count >= email_circuit_breaker_threshold
  THEN IF b.last_failure_time # None
       THEN IF t - b.last_failure_time <= email_circuit_breaker_timeout
            THEN [ret |-> TRUE, b |-> b]
            ELSE [ret |-> FALSE, b |-> [failure_count |-> 0, last_failure_time |-> None]]
       ELSE [ret |-> FALSE, b |-> b]
  ELSE [ret |-> FALSE, b |-> b]

\* Mutant: a rejected call is counted as one more failure.
is_open_counts(b, t) ==
  IF b.failure_count >= email_circuit_breaker_threshold
  THEN IF b.last_failure_time # None
       THEN IF t - b.last_failure_time < email_circuit_breaker_timeout
            THEN [ret |-> TRUE, b |-> [b EXCEPT !.failure_count = @ + 1]]
            ELSE [ret |-> FALSE, b |-> [failure_count |-> 0, last_failure_time |-> None]]
       ELSE [ret |-> FALSE, b |-> b]
  ELSE [ret |-> FALSE, b |-> b]

\* CircuitBreaker.is_open (email)
is_open(b, t) ==
  IF b.failure_count >= email_circuit_breaker_threshold
  THEN IF b.last_failure_time # None
       THEN IF t - b.last_failure_time < email_circuit_breaker_timeout
            THEN [ret |-> TRUE, b |-> b]
            ELSE [ret |-> FALSE, b |-> [failure_count |-> 0, last_failure_time |-> None]]
       ELSE [ret |-> FALSE, b |-> b]
  ELSE [ret |-> FALSE, b |-> b]

\* Mutant: the failure is counted but its time is not taken.
record_failure_keeps_time(b, t) ==
  [failure_count |-> b.failure_count + 1, last_failure_time |-> b.last_failure_time]

\* CircuitBreaker.record_failure (email)
record_failure(b, t) ==
  [failure_count |-> b.failure_count + 1, last_failure_time |-> t]

\* CircuitBreaker.record_success (email)
record_success(b) ==
  [failure_count |-> 0, last_failure_time |-> None]

SetBreaker(b) ==
  /\ failure_count' = b.failure_count
  /\ last_failure_time' = b.last_failure_time

\* ------------------------------------------------------------ retry policy
\* Outcomes of one transport attempt: a response that is returned, or an exception.
SmsResponses == {"ok", "malformed", "non200"}
SmsExceptions == {"TimeoutException", "ConnectError", "RemoteProtocolError", "other"}
SmsOutcomes == SmsResponses \cup SmsExceptions
EmailExceptions ==
  {"SMTPAuthenticationError", "SMTPServerDisconnected", "ConnectionError",
   "TimeoutError", "other"}
EmailOutcomes == {"ok"} \cup EmailExceptions
Outcomes(c) == IF c = "sms" THEN SmsOutcomes ELSE EmailOutcomes

\* smtplib: the classes that derive from SMTPException.
SMTPException == {"SMTPAuthenticationError", "SMTPServerDisconnected"}

\* retry_if_exception_type(...) of _send_http_request
sms_retry(e) == e \in {"TimeoutException", "ConnectError", "RemoteProtocolError"}

\* retry_if_exception_type(...) of _send_smtp_email_sync
email_retry(e) == e \in SMTPException \cup {"ConnectionError", "TimeoutError"}

\* Mutant: one attempt too many (> for >=).
stop_after_attempt_gt(max_attempt_number, n) == n > max_attempt_number

\* stop_after_attempt(max_attempt_number) at attempt_number n
stop_after_attempt(max_attempt_number, n) == n >= max_attempt_number

Max(a, b) == IF a >= b THEN a ELSE b
Min(a, b) == IF a <= b THEN a ELSE b

\* Mutant: no floor (min=0).
wait_exponential_no_floor(n) == Max(Max(0, 0), Min(1 * 2^(n - 1), 10))

\* wait_exponential(multiplier=1, min=4, max=10) at attempt_number n
wait_exponential(n) == Max(Max(0, 4), Min(1 * 2^(n - 1), 10))

\* What the @retry wrapper does with the outcome e of attempt n.
retry_decision(c, e, n, max_attempt_number) ==
  IF e \notin (SmsExceptions \cup EmailExceptions) THEN "return"
  ELSE IF ~(IF c = "sms" THEN sms_retry(e) ELSE email_retry(e)) THEN "reraise"
  ELSE IF stop_after_attempt(max_attempt_number, n) THEN "RetryError"
  ELSE "sleep"

\* ---------------------------------------------------------------- requests
\* A string is the sequence of its characters; s[i:] of Python is Slice(s, i).
Digit == {"0", "1", "2", "3", "4", "5", "6", "7", "8", "9"}
Formatting == {" ", "-", "(", ")"}
Slice(s, i) == SubSeq(s, i + 1, Len(s))
IsDigits(s) == \A i \in 1..Len(s) : s[i] \in Digit
StartsWith(s, p) == Len(s) >= Len(p) /\ SubSeq(s, 1, Len(p)) = p
\* re.match(r'^<p>[0-9]{k}$', s)
MatchPrefixDigits(s, p, k) ==
  StartsWith(s, p) /\ Len(s) = Len(p) + k /\ IsDigits(Slice(s, Len(p)))
\* re.match(r'^\+?[1-9]\d{1,14}$', s)
MatchInternational(s) ==
  LET d == IF StartsWith(s, <<"+">>) THEN Slice(s, 1) ELSE s
  IN /\ Len(d) >= 2 /\ Len(d) <= 15
     /\ IsDigits(d)
     /\ d[1] # "0"

\* re.sub(r'[\s\-\(\)]', '', phone)
clean_phone_number(phone) == SelectSeq(phone, LAMBDA c : c \notin Formatting)

\* SMSService._validate_phone_number
_validate_phone_number(phone_number) ==
  LET clean_phone == clean_phone_number(phone_number)
  IN \/ MatchPrefixDigits(clean_phone, <<"+", "9", "8">>, 10)
     \/ MatchPrefixDigits(clean_phone, <<"0", "0", "9", "8">>, 10)
     \/ MatchPrefixDigits(clean_phone, <<"0", "9">>, 9)
     \/ MatchPrefixDigits(clean_phone, <<"5", "0", "0", "0">>, 10)
     \/ MatchInternational(clean_phone)

\* A text is known by its length and by the length of text.strip().
SmsTextLimit == 1600
Text(len, strip) == [len |-> len, strip |-> strip]

\* SMSService._validate_sms_request: "ok", or the message of the SMSServiceError raised.
_validate_sms_request(sms_request) ==
  IF ~_validate_phone_number(sms_request.to) THEN "Invalid phone number format"
  ELSE IF sms_request.text.len = 0 \/ sms_request.text.strip = 0
       THEN "SMS text cannot be empty"
  ELSE IF sms_request.text.len > SmsTextLimit THEN "SMS text exceeds maximum length"
  ELSE "ok"

\* SMSService._sanitize_text: the length of the text that is sent.
_sanitize_text(text) == Min(text.strip, SmsTextLimit)

\* Sample recipients: 10-digit national numbers in the +98, 0098, 98 and local
\* 0 forms, one with formatting characters, and strings that are no phone number.
National ==
  {<<"9", "1", "2", "3", "4", "5", "6", "7", "8", "9">>,
   <<"9", "3", "5", "0", "0", "0", "1", "1", "2", "2">>,
   <<"9", "9", "0", "1", "2", "0", "3", "4", "0", "5">>}
Phones ==
  {p \o n : p \in {<<"+", "9", "8">>, <<"0", "0", "9", "8">>, <<"9", "8">>, <<"0">>,
                   <<"+", "9", "8", " ">>},
            n \in National}
  \cup {<<"0", "1", "2", "3">>, <<"a", "b", "c">>, <<>>}
SmsTexts ==
  {Text(0, 0), Text(2, 0), Text(5, 5), Text(7, 5), Text(SmsTextLimit, SmsTextLimit),
   Text(SmsTextLimit + 1, SmsTextLimit + 1), Text(SmsTextLimit + 2, SmsTextLimit)}
SMSRequests == [to : Phones, text : SmsTexts]

\* The requests the dispatches are called with: one accepted, one per rejection.
DispatchRequests ==
  {r \in SMSRequests :
     /\ r.to \in {<<"0", "9", "1", "2", "3", "4", "5", "6", "7", "8", "9">>, <<"a", "b", "c">>}
     /\ r.text \in {Text(5, 5), Text(2, 0), Text(SmsTextLimit + 1, SmsTextLimit + 1)}}

\* ----------------------------------------------------------------- Init
NoRequest == [to |-> <<>>]
NoWire == [status |-> "none"]
MaxThreads == 3          \* threads one behaviour of the consumer service creates
Threads == 1..MaxThreads
NoThread == 0
MaxStops == 2            \* stop_consuming calls counted after a start_consuming
NoStreak == [n |-> 0, since_reset |-> 0, at |-> None]
NoRetryState == [attempt_number |-> 0, sleep |-> 0, phase |-> "none"]

\* The service as constructed: breaker closed, every permit free, no dispatch.
InitDispatch ==
  /\ channel \in Channels
  /\ now = 0
  /\ failure_count = 0
  /\ last_failure_time = None
  /\ permits = rate_limit(channel)
  /\ pc = [t \in Tasks |-> "idle"]
  /\ attempt = [t \in Tasks |-> 0]
  /\ err = [t \in Tasks |-> "none"]
  /\ result = [t \in Tasks |-> "none"]
  /\ last_check = "none"
  /\ audit = [t \in Tasks |-> 0]
  /\ delivered = [t \in Tasks |-> FALSE]
  /\ streak = NoStreak

NoRetry == stop_max = 0 /\ retry_state = NoRetryState
NoInput == request = NoRequest /\ wire = NoWire

\* OTPConsumerService.__init__, and a broker client that is not connected.
InitConsumer ==
  /\ is_running = FALSE
  /\ consumer_thread = NoThread
  /\ thread = [i \in Threads |-> "none"]
  /\ connected = FALSE
  /\ callbacks = {}
  /\ stop_signal = FALSE
  /\ main = [op |-> "none", pc |-> "idle"]
  /\ last = [op |-> "none", result |-> "none", failed |-> FALSE]
  /\ stops = 0
  /\ joined = FALSE
  /\ started = FALSE

\* No message is being handled and no HTTP request answered.
NoMessage == [timestamp |-> <<>>]
NoResponse == [status_code |-> 0, cause |-> "none"]
NoHandler ==
  /\ response = NoResponse
  /\ message_data = NoMessage
  /\ handler = [pc |-> "idle", ret |-> FALSE, dispatches |-> 0, request |-> NoRequest,
                outcome |-> "none", decision |-> "none"]

\* No thread is inside a breaker method and the audit logger is not followed.
NoAudit == frames = [call |-> <<>>] /\ sms_logger = [buffer |-> <<>>]

Init == InitDispatch /\ NoRetry /\ NoInput /\ InitConsumer /\ NoHandler /\ NoAudit

\* -------------------------------------------------------------- helpers
\* The dispatch ends: exception raised or response returned.
Finish(t, r) ==
  /\ pc' = [pc EXCEPT ![t] = "done"]
  /\ result' = [result EXCEPT ![t] = r]
  /\ err' = [err EXCEPT ![t] = "none"]

\* Mutant: the block is entered whether or not a permit is free.
Enter_unguarded(t) ==
  /\ permits' = permits - 1
  /\ pc' = [pc EXCEPT ![t] = "sending"]
  /\ attempt' = [attempt EXCEPT ![t] = 1]

\* `async with self.rate_limit_semaphore` entered, first transport attempt started.
Enter(t) ==
  IF permits > 0
  THEN /\ permits' = permits - 1
       /\ pc' = [pc EXCEPT ![t] = "sending"]
       /\ attempt' = [attempt EXCEPT ![t] = 1]
  ELSE /\ pc' = [pc EXCEPT ![t] = "waiting"]
       /\ UNCHANGED <<permits, attempt>>

\* Mutant: the permit is not given back.
Release_none == permits' = permits

\* Semaphore.release on leaving the `async with` block.
Release == permits' = permits + 1

\* What a breaker check that returned o did.
Checked(o) ==
  last_check' = IF o.ret THEN "open" ELSE IF o.b # Breaker THEN "reset" ELSE "pass"

\* ---------------------------------------------------------------- actions
\* Mutant: the validation is made inside the try block, whose handlers record a failure.
send_sms_validates_in_try(t, sms_request) ==
  /\ channel = "sms"
  /\ pc[t] = "idle"
  /\ LET o == _is_circuit_breaker_open(Breaker, now) IN
     /\ Checked(o)
     /\ IF o.ret
        THEN /\ SetBreaker(o.b)
             /\ Finish(t, "circuit_open")
             /\ UNCHANGED <<permits, attempt>>
        ELSE IF _validate_sms_request(sms_request) # "ok"
        THEN /\ SetBreaker(_record_failure(o.b, now))
             /\ Finish(t, "invalid")
             /\ UNCHANGED <<permits, attempt>>
        ELSE /\ SetBreaker(o.b)
             /\ Enter(t)
             /\ UNCHANGED <<err, result>>
  /\ UNCHANGED <<channel, now, ovars>>

\* SMSService.send_sms up to its first suspension.
send_sms(t, sms_request) ==
  /\ channel = "sms"
  /\ pc[t] = "idle"
  /\ LET o == _is_circuit_breaker_open(Breaker, now) IN
     /\ SetBreaker(o.b)
     /\ Checked(o)
     /\ IF o.ret
        THEN /\ Finish(t, "circuit_open")
             /\ UNCHANGED <<permits, attempt>>
        ELSE IF _validate_sms_request(sms_request) # "ok"
        THEN /\ Finish(t, "invalid")
             /\ UNCHANGED <<permits, attempt>>
        ELSE /\ Enter(t)
             /\ UNCHANGED <<err, result>>
  /\ UNCHANGED <<channel, now, ovars>>

\* EmailService.send_email up to its first suspension.
send_email(t) ==
  /\ channel = "email"
  /\ pc[t] = "idle"
  /\ LET o == is_open(Breaker, now) IN
     /\ SetBreaker(o.b)
     /\ Checked(o)
     /\ IF o.ret
        THEN /\ Finish(t, "circuit_open")
             /\ UNCHANGED <<permits, attempt>>
        ELSE /\ Enter(t)
             /\ UNCHANGED <<err, result>>
  /\ UNCHANGED <<channel, now, ovars>>

\* A waiter of the semaphore is woken with a permit and starts its first attempt.
Acquire(t) ==
  /\ pc[t] = "waiting"
  /\ permits > 0
  /\ permits' = permits - 1
  /\ pc' = [pc EXCEPT ![t] = "sending"]
  /\ attempt' = [attempt EXCEPT ![t] = 1]
  /\ UNCHANGED <<channel, now, failure_count, last_failure_time, err, result, last_check, ovars>>

\* The breaker after send_sms has handled the final failure e of the request:
\* the except clauses that run, in order.  The SMSServiceError raised for a
\* malformed body or a non-200 status is raised inside the outer try block, so
\* the `except Exception` clause handles it too.
sms_failure_handlers(b, e, t) ==
  IF e \in {"malformed", "non200"}
  THEN _record_failure(_record_failure(b, t), t)
  ELSE _record_failure(b, t)

\* Mutant: the permit is given back when the retry wait begins.
sms_attempt_releases_to_wait(t, e) ==
  /\ channel = "sms" /\ pc[t] = "sending"
  /\ IF retry_decision("sms", e, attempt[t], sms_retry_attempts) = "sleep"
     THEN /\ pc' = [pc EXCEPT ![t] = "backoff"]
          /\ err' = [err EXCEPT ![t] = e]
          /\ Release
          /\ UNCHANGED <<failure_count, last_failure_time, result>>
     ELSE /\ permits' = permits
          /\ IF e = "ok"
             THEN /\ SetBreaker(_record_success(Breaker))
                  /\ Finish(t, "sent")
             ELSE /\ SetBreaker(sms_failure_handlers(Breaker, e, now))
                  /\ Finish(t, "failed")
  /\ UNCHANGED <<channel, now, attempt, last_check, ovars>>

\* One attempt of _send_http_request ends with outcome e; tenacity decides;
\* on a final outcome the rest of send_sms runs and the permit is released.
sms_attempt(t, e) ==
  /\ channel = "sms" /\ pc[t] = "sending"
  /\ IF retry_decision("sms", e, attempt[t], sms_retry_attempts) = "sleep"
     THEN /\ pc' = [pc EXCEPT ![t] = "backoff"]
          /\ err' = [err EXCEPT ![t] = e]
          /\ UNCHANGED <<failure_count, last_failure_time, permits, result>>
     ELSE /\ Release
          /\ IF e = "ok"
             THEN /\ SetBreaker(_record_success(Breaker))
                  /\ Finish(t, "sent")
             ELSE /\ SetBreaker(sms_failure_handlers(Breaker, e, now))
                  /\ Finish(t, "failed")
  /\ UNCHANGED <<channel, now, attempt, last_check, ovars>>

\* Whether the failure branch of send_email got its entry logged: after a send
\* that succeeded the branch is entered because the first log_email raised, and
\* the call it makes is the second one.
email_logged(e, log1, log2) == IF e = "ok" THEN log2 ELSE log1

\* One attempt of _send_smtp_email_sync ends with outcome e; tenacity decides;
\* on a final outcome the rest of send_email runs and the permit is released.
\* log1, log2: whether the first and the second call of email_logger.log_email
\* made by this dispatch return (TRUE) or raise (FALSE).
email_attempt(t, e, log1, log2) ==
  /\ channel = "email" /\ pc[t] = "sending"
  /\ IF retry_decision("email", e, attempt[t], email_retry_attempts) = "sleep"
     THEN /\ pc' = [pc EXCEPT ![t] = "backoff"]
          /\ err' = [err EXCEPT ![t] = e]
          /\ UNCHANGED <<failure_count, last_failure_time, permits, result>>
     ELSE /\ Release
          /\ IF e = "ok" /\ log1
             THEN /\ SetBreaker(record_success(Breaker))
                  /\ Finish(t, "sent")
             ELSE /\ SetBreaker(record_failure(Breaker, now))
                  /\ Finish(t, IF email_logged(e, log1, log2) THEN "failed" ELSE "raised")
  /\ UNCHANGED <<channel, now, attempt, last_check, ovars>>

\* The backoff sleep of tenacity is over: the next attempt starts.
Retry(t) ==
  /\ pc[t] = "backoff"
  /\ pc' = [pc EXCEPT ![t] = "sending"]
  /\ attempt' = [attempt EXCEPT ![t] = @ + 1]
  /\ err' = [err EXCEPT ![t] = "none"]
  /\ UNCHANGED <<channel, now, failure_count, last_failure_time, permits, result, last_check, ovars>>

\* The caller has taken the result; the slot is free for another dispatch.
Return(t) ==
  /\ pc[t] = "done"
  /\ pc' = [pc EXCEPT ![t] = "idle"]
  /\ attempt' = [attempt EXCEPT ![t] = 0]
  /\ err' = [err EXCEPT ![t] = "none"]
  /\ result' = [result EXCEPT ![t] = "none"]
  /\ UNCHANGED <<channel, now, failure_count, last_failure_time, permits, last_check, ovars>>

\* Time passes.
Tick(d) ==
  /\ now + d <= MaxTime
  /\ now' = now + d
  /\ UNCHANGED <<channel, failure_count, last_failure_time, permits, pc, attempt, err, result,
                 last_check, ovars>>

TickSteps == {Quantum, sms_circuit_breaker_timeout, email_circuit_breaker_timeout}

\* Concurrent dispatches on one service.  The audit logger is another object
\* and is left out here: SpecCall follows it.
Next ==
  \/ \E t \in Tasks, sms_request \in DispatchRequests :
        send_sms(t, sms_request) /\ UNCHANGED <<gvars, hvars>>
  \/ \E t \in Tasks : send_email(t) /\ UNCHANGED <<gvars, hvars>>
  \/ \E t \in Tasks : Acquire(t) /\ UNCHANGED <<gvars, hvars>>
  \/ \E t \in Tasks, e \in SmsOutcomes : sms_attempt(t, e) /\ UNCHANGED <<gvars, hvars>>
  \/ \E t \in Tasks, e \in EmailOutcomes, log1 \in BOOLEAN, log2 \in BOOLEAN :
        email_attempt(t, e, log1, log2) /\ UNCHANGED <<gvars, hvars>>
  \/ \E t \in Tasks : Retry(t) /\ UNCHANGED <<gvars, hvars>>
  \/ \E t \in Tasks : Return(t) /\ UNCHANGED <<gvars, hvars>>
  \/ \E d \in TickSteps : Tick(d) /\ UNCHANGED <<gvars, hvars>>

Spec == Init /\ [][Next]_vars

\* ------------------------------------------- one caller and the audit logger
\* The dispatches of one caller that makes them one after the other, as the OTP
\* handler does (asyncio.run(send_sms(...)) per message), together with the
\* entries each dispatch hands to the audit logger.
Caller == CHOOSE t \in Tasks : \A u \in Tasks : t <= u

\* The outcomes after which send_sms schedules _log_sms_async.
sms_logged_outcome(e) == e \in {"ok", "non200"}

\* Entries written for an SMS dispatch whose final outcome is e.  log: whether
\* the scheduled _log_sms_async records its entry (it swallows what log_sms
\* raises, and it is cancelled when its event loop is closed first).
sms_entries(e, log) == IF sms_logged_outcome(e) /\ log THEN 1 ELSE 0

\* Entries written for an email dispatch whose final outcome is e.
email_entries(e, log1, log2) ==
  IF e = "ok" /\ log1 THEN 1
  ELSE IF email_logged(e, log1, log2) THEN 1 ELSE 0

\* The run of dispatches that went to the transport and ended in a failure, one
\* after the other with no success between them: how many (n, counted up to the
\* threshold), how many of them since a breaker check last reset the breaker
\* (since_reset), and when the last one ended (at).
StreakFailed ==
  streak' = [n |-> Min(streak.n + 1, threshold(channel)),
             since_reset |-> Min(streak.since_reset + 1, threshold(channel)),
             at |-> now]
StreakChecked ==
  streak' = IF last_check' = "reset" THEN [streak EXCEPT !.since_reset = 0] ELSE streak

\* The call of send_sms / send_email: rejected calls write no entry.
call_send_sms(sms_request) ==
  /\ send_sms(Caller, sms_request)
  /\ StreakChecked
  /\ UNCHANGED <<audit, delivered>>

call_send_email ==
  /\ send_email(Caller)
  /\ StreakChecked
  /\ UNCHANGED <<audit, delivered>>

\* The end of a transport attempt, with the log calls of the code that follows.
call_sms_attempt(e, log) ==
  /\ sms_attempt(Caller, e)
  /\ IF pc'[Caller] = "backoff"
     THEN UNCHANGED gvars
     ELSE /\ audit' = [audit EXCEPT ![Caller] = @ + sms_entries(e, log)]
          /\ delivered' = [delivered EXCEPT ![Caller] = (e = "ok")]
          /\ IF e = "ok" THEN streak' = NoStreak ELSE StreakFailed

call_email_attempt(e, log1, log2) ==
  /\ email_attempt(Caller, e, log1, log2)
  /\ IF pc'[Caller] = "backoff"
     THEN UNCHANGED gvars
     ELSE /\ audit' = [audit EXCEPT ![Caller] = @ + email_entries(e, log1, log2)]
          /\ delivered' = [delivered EXCEPT ![Caller] = (e = "ok")]
          /\ IF e = "ok" THEN streak' = NoStreak ELSE StreakFailed

\* The caller takes the result and is ready for its next dispatch.
call_return ==
  /\ Return(Caller)
  /\ audit' = [audit EXCEPT ![Caller] = 0]
  /\ delivered' = [delivered EXCEPT ![Caller] = FALSE]
  /\ UNCHANGED streak

NextCall ==
  \/ \E sms_request \in DispatchRequests : call_send_sms(sms_request) /\ UNCHANGED hvars
  \/ call_send_email /\ UNCHANGED hvars
  \/ \E e \in SmsOutcomes, log \in BOOLEAN : call_sms_attempt(e, log) /\ UNCHANGED hvars
  \/ \E e \in EmailOutcomes, log1 \in BOOLEAN, log2 \in BOOLEAN :
        call_email_attempt(e, log1, log2) /\ UNCHANGED hvars
  \/ Retry(Caller) /\ UNCHANGED <<gvars, hvars>>
  \/ call_return /\ UNCHANGED hvars
  \/ \E d \in TickSteps : Tick(d) /\ UNCHANGED <<gvars, hvars>>

SpecCall == Init /\ [][NextCall]_vars

\* ------------------------------------------------- the retry loop on its own
\* One run of a @retry-wrapped call under stop_after_attempt(stop_max), for
\* every setting of stop_max up to MaxStopAfter, with the wait and the retry
\* condition of the two wrappers.
InitRetry ==
  /\ InitDispatch /\ NoInput /\ InitConsumer /\ NoHandler /\ NoAudit
  /\ stop_max \in 1..MaxStopAfter
  /\ retry_state = [attempt_number |-> 1, sleep |-> 0, phase |-> "call"]

\* The wrapped call ends with outcome e.
RetryOutcome(e) ==
  /\ retry_state.phase = "call"
  /\ LET d == retry_decision(channel, e, retry_state.attempt_number, stop_max) IN
     retry_state' =
       IF d = "sleep"
       THEN [retry_state EXCEPT !.phase = "sleep",
                                !.sleep = wait_exponential(retry_state.attempt_number)]
       ELSE [retry_state EXCEPT !.phase = d]
  /\ UNCHANGED <<dvars, gvars, stop_max, ivars, cvars, hvars, avars>>

\* The sleep is over: the next attempt.
RetryWake ==
  /\ retry_state.phase = "sleep"
  /\ retry_state' = [retry_state EXCEPT !.phase = "call", !.attempt_number = @ + 1]
  /\ UNCHANGED <<dvars, gvars, stop_max, ivars, cvars, hvars, avars>>

NextRetry ==
  \/ \E e \in Outcomes(channel) : RetryOutcome(e)
  \/ RetryWake

SpecRetry == InitRetry /\ [][NextRetry]_vars

\* --------------------------------------------- request handling on its own
\* What one dispatch makes of its request before the transport is called: the
\* payload send_sms builds, and the subject and body _send_smtp_email_sync puts
\* into the message with the subject send_email writes to the log.
Absent == "None"                       \* Python None for an optional string
Truthy(x) == x # Absent /\ x # ""
DefaultSubject == "Welcome to Our Service"
DefaultBody == "Hello! Thank you for your interest in our service."
EmailRequests ==
  [subject : {Absent, "", "Verification Code: 123456"},
   body : {Absent, "", "Your code is 123456", "<html>123456</html>"}]

\* Mutant: the 98 + 11 digits form loses its last digit, as the 09 + 10 digits form does.
convert_phone_for_melipayamak_trims(phone) ==
  LET clean_phone == clean_phone_number(phone) IN
  IF MatchPrefixDigits(clean_phone, <<"9", "8">>, 10)
  THEN <<"0", "9">> \o Slice(clean_phone, 3)
  ELSE IF MatchPrefixDigits(clean_phone, <<"9", "8">>, 11)
  THEN SubSeq(clean_phone, 1, Len(clean_phone) - 1)
  ELSE IF MatchPrefixDigits(clean_phone, <<"+", "9", "8">>, 10)
  THEN <<"0", "9">> \o Slice(clean_phone, 4)
  ELSE IF MatchPrefixDigits(clean_phone, <<"0", "0", "9", "8">>, 10)
  THEN <<"0", "9">> \o Slice(clean_phone, 5)
  ELSE IF MatchPrefixDigits(clean_phone, <<"0", "9">>, 9) THEN clean_phone
  ELSE IF MatchPrefixDigits(clean_phone, <<"0", "9">>, 10)
  THEN SubSeq(clean_phone, 1, Len(clean_phone) - 1)
  ELSE clean_phone

\* PhoneValidator.convert_phone_for_melipayamak
convert_phone_for_melipayamak(phone) ==
  LET clean_phone == clean_phone_number(phone) IN
  IF MatchPrefixDigits(clean_phone, <<"9", "8">>, 10)
  THEN <<"0", "9">> \o Slice(clean_phone, 3)
  ELSE IF MatchPrefixDigits(clean_phone, <<"9", "8">>, 11) THEN clean_phone
  ELSE IF MatchPrefixDigits(clean_phone, <<"+", "9", "8">>, 10)
  THEN <<"0", "9">> \o Slice(clean_phone, 4)
  ELSE IF MatchPrefixDigits(clean_phone, <<"0", "0", "9", "8">>, 10)
  THEN <<"0", "9">> \o Slice(clean_phone, 5)
  ELSE IF MatchPrefixDigits(clean_phone, <<"0", "9">>, 9) THEN clean_phone
  ELSE IF MatchPrefixDigits(clean_phone, <<"0", "9">>, 10)
  THEN SubSeq(clean_phone, 1, Len(clean_phone) - 1)
  ELSE clean_phone

\* The subject and body chosen by `if email_request.subject and email_request.body`.
email_content(email_request) ==
  IF Truthy(email_request.subject) /\ Truthy(email_request.body)
  THEN [subject |-> email_request.subject, body |-> email_request.body]
  ELSE [subject |-> DefaultSubject, body |-> DefaultBody]

InitInput ==
  /\ InitDispatch /\ NoRetry /\ InitConsumer /\ NoHandler /\ NoAudit
  /\ request \in (IF channel = "sms" THEN SMSRequests ELSE EmailRequests)
  /\ wire = NoWire

\* send_sms from the validation to the payload handed to _send_http_request.
prepare_payload ==
  /\ channel = "sms" /\ wire = NoWire
  /\ wire' = IF _validate_sms_request(request) # "ok"
             THEN [status |-> "rejected"]
             ELSE [status |-> "payload", to |-> request.to,
                   text |-> _sanitize_text(request.text)]
  /\ UNCHANGED <<dvars, gvars, rvars, request, cvars, hvars, avars>>

\* The message _send_smtp_email_sync sends and the subject send_email logs.
prepare_message ==
  /\ channel = "email" /\ wire = NoWire
  /\ wire' = [status |-> "message",
              subject |-> email_content(request).subject,
              body |-> email_content(request).body,
              log_subject |-> email_content(request).subject]
  /\ UNCHANGED <<dvars, gvars, rvars, request, cvars, hvars, avars>>

NextInput == prepare_payload \/ prepare_message

SpecInput == InitInput /\ [][NextInput]_vars

\* ------------------------------------------------- the normalizer on its own
\* PhoneValidator.convert_phone_for_melipayamak applied to a recipient, and
\* applied again to what it returned.  The inputs: the sample recipients, and
\* the 98 and 0 forms with one digit more (98 + 11 digits, 09 + 10 digits), and
\* a national number that does not begin with 9 in the four forms.
NormalizerInputs ==
  Phones \cup {p \o n \o <<d>> : p \in {<<"9", "8">>, <<"0">>}, n \in National,
                                  d \in {"0", "7"}}
         \cup {p \o <<"2", "1", "2", "3", "4", "5", "6", "7", "8", "9">> :
                 p \in {<<"9", "8">>, <<"+", "9", "8">>, <<"0", "0", "9", "8">>, <<"0">>}}

\* The formats PhoneValidator.PATTERNS lists for Iranian numbers.
AcceptedFormat(phone) ==
  LET clean_phone == clean_phone_number(phone)
  IN \/ MatchPrefixDigits(clean_phone, <<"+", "9", "8">>, 10)
     \/ MatchPrefixDigits(clean_phone, <<"0", "0", "9", "8">>, 10)
     \/ MatchPrefixDigits(clean_phone, <<"9", "8">>, 10)
     \/ MatchPrefixDigits(clean_phone, <<"9", "8">>, 11)
     \/ MatchPrefixDigits(clean_phone, <<"0", "9">>, 9)
     \/ MatchPrefixDigits(clean_phone, <<"0", "9">>, 10)

InitNormalize ==
  /\ InitDispatch /\ NoRetry /\ InitConsumer /\ NoHandler /\ NoAudit
  /\ request \in {[to |-> p] : p \in NormalizerInputs}
  /\ wire = NoWire

normalize ==
  /\ wire = NoWire
  /\ wire' = [status |-> "normalized", to |-> convert_phone_for_melipayamak(request.to)]
  /\ UNCHANGED <<dvars, gvars, rvars, request, cvars, hvars, avars>>

normalize_again ==
  /\ wire.status = "normalized"
  /\ wire' = [status |-> "renormalized", to |-> convert_phone_for_melipayamak(wire.to),
              first |-> wire.to]
  /\ UNCHANGED <<dvars, gvars, rvars, request, cvars, hvars, avars>>

NextNormalize == normalize \/ normalize_again

SpecNormalize == InitNormalize /\ [][NextNormalize]_vars

\* How a dispatch may end by its contract: a result object returned, or the
\* service error of the channel raised (SMSServiceError / EmailServiceError).
ServiceErrors == {"circuit_open", "invalid", "failed"}

\* ------------------------------------------------------- the HTTP SMS route
\* POST /sms/send: the route awaits send_sms and answers with the response, or
\* with an HTTPException whose status depends on the exception send_sms raised.
\* r: how the dispatch ended.
http_status(r) ==
  IF r = "sent" THEN 200
  ELSE IF r \in ServiceErrors THEN 400
  ELSE 500

\* result = await sms_service.send_sms(sms_request)
route_send_sms(sms_request) ==
  /\ call_send_sms(sms_request)
  /\ response' = [status_code |-> 0,
                  cause |-> IF pc'[Caller] = "done" THEN result'[Caller] ELSE "none"]
  /\ UNCHANGED <<message_data, handler>>

\* The transport call of the dispatch ends with outcome e.
route_sms_attempt(e, log) ==
  /\ call_sms_attempt(e, log)
  /\ response' = [response EXCEPT !.cause = e]
  /\ UNCHANGED <<message_data, handler>>

\* return result / raise HTTPException(status_code=...)
route_respond ==
  /\ pc[Caller] = "done"
  /\ response' = [response EXCEPT !.status_code = http_status(result[Caller])]
  /\ call_return
  /\ UNCHANGED <<message_data, handler>>

NextRoute ==
  \/ \E sms_request \in DispatchRequests : route_send_sms(sms_request)
  \/ \E e \in SmsOutcomes, log \in BOOLEAN : route_sms_attempt(e, log)
  \/ Retry(Caller) /\ UNCHANGED <<gvars, hvars>>
  \/ route_respond
  \/ \E d \in TickSteps : Tick(d) /\ UNCHANGED <<gvars, hvars>>

SpecRoute == Init /\ [][NextRoute]_vars

\* ------------------------------------------------------------ the OTP handler
\* OTPHandler.handle_email_otp / handle_sms_otp for the messages of one queue,
\* one at a time, with the dispatch each of them makes (asyncio.run of
\* send_email / send_sms, followed as the caller's dispatch) and the decision
\* the broker callback takes on the value returned.
OTPCode == <<"1", "2", "3", "4", "5", "6">>
Identifiers(c) ==
  IF c = "sms" THEN {<<>>} \cup {r.to : r \in DispatchRequests}
  ELSE {<<>>, <<"user", "@", "example.com">>, <<"user">>}

\* message_data: a dictionary in which "identifier" and "otp_code" may be
\* missing, empty or given.
Messages(c) ==
  LET stamp == "timestamp" :> <<"2025-01-01T00:00:00">>
      ids == {stamp} \cup {stamp @@ ("identifier" :> i) : i \in Identifiers(c)}
  IN  ids \cup {m @@ ("otp_code" :> o) : m \in ids, o \in {<<>>, OTPCode}}

\* message_data.get(k) is truthy
Has(d, k) == k \in DOMAIN d /\ d[k] # <<>>

\* sub occurs in s as a run of consecutive characters
Contains(s, sub) ==
  \E i \in 1..(Len(s) - Len(sub) + 1) : SubSeq(s, i, i + Len(sub) - 1) = sub

\* SMSRequest: the length bounds of `to` and validate_to_phone
validate_to_phone(v) ==
  LET clean_phone == clean_phone_number(v)
  IN /\ Len(v) >= 10 /\ Len(v) <= 20
     /\ \/ MatchPrefixDigits(clean_phone, <<"+", "9", "8">>, 10)
        \/ MatchPrefixDigits(clean_phone, <<"0", "0", "9", "8">>, 10)
        \/ MatchPrefixDigits(clean_phone, <<"0", "9">>, 9)
        \/ MatchInternational(clean_phone)

\* EmailRequest: `to` is an EmailStr, one "@" between a local part and a domain
EmailStr(v) ==
  \E i \in 2..(Len(v) - 1) : \A j \in 1..Len(v) : (v[j] = "@") <=> (j = i)

\* Length of the text before the code in sms_text.
SmsOtpPrefix == 12

\* SMSRequest(to=identifier, text=sms_text)
sms_otp_request(m) ==
  [to |-> clean_phone_number(m["identifier"]),
   text |-> Text(SmsOtpPrefix + Len(m["otp_code"]), SmsOtpPrefix + Len(m["otp_code"]))]

\* Mutant: the body is the template without the code.
email_otp_request_no_code(m) ==
  [to |-> m["identifier"],
   subject |-> <<"Verification Code: ">> \o m["otp_code"],
   body |-> <<"<!DOCTYPE html>...<div class=\"otp-code\">">> \o <<"</div>...</html>">>]

\* EmailRequest(to=identifier, subject=subject, body=body)
email_otp_request(m) ==
  [to |-> m["identifier"],
   subject |-> <<"Verification Code: ">> \o m["otp_code"],
   body |-> <<"<!DOCTYPE html>...<div class=\"otp-code\">">> \o m["otp_code"]
              \o <<"</div>...</html>">>]

\* The broker callback, from its contract: True is acknowledged, False is
\* negatively acknowledged for redelivery.
callback_decision(ret) == IF ret THEN "ack" ELSE "nack"

\* The handler is called with message m: the check of identifier and otp_code,
\* and the request built; the ValidationError of a request whose recipient the
\* schema rejects is caught and the handler returns False.
handle_otp(m) ==
  /\ handler.pc \in {"idle", "returned"}
  /\ pc[Caller] = "idle"
  /\ message_data' = m
  /\ handler' =
       IF ~Has(m, "identifier") \/ ~Has(m, "otp_code")
       THEN [pc |-> "returned", ret |-> FALSE, dispatches |-> 0, request |-> NoRequest,
             outcome |-> "none", decision |-> callback_decision(FALSE)]
       ELSE IF ~(IF channel = "sms" THEN validate_to_phone(m["identifier"])
                 ELSE EmailStr(m["identifier"]))
       THEN [pc |-> "returned", ret |-> FALSE, dispatches |-> 0, request |-> NoRequest,
             outcome |-> "ValidationError", decision |-> callback_decision(FALSE)]
       ELSE [pc |-> "dispatch", ret |-> FALSE, dispatches |-> 0,
             request |-> IF channel = "sms" THEN sms_otp_request(m) ELSE email_otp_request(m),
             outcome |-> "none", decision |-> "none"]
  /\ UNCHANGED <<dvars, gvars, ovars, response>>

\* asyncio.run(self.sms_service.send_sms(sms_request)) /
\* asyncio.run(self._send_otp_email(email_request)): the dispatch begins
handle_dispatch ==
  /\ handler.pc = "dispatch"
  /\ IF channel = "sms" THEN call_send_sms(handler.request) ELSE call_send_email
  /\ handler' = [handler EXCEPT !.pc = "awaiting", !.dispatches = @ + 1]
  /\ UNCHANGED <<message_data, response>>

\* Mutant: an exception that is not a service error leaves the handler.
handle_result_reraises(has_word) ==
  /\ handler.pc = "awaiting"
  /\ pc[Caller] = "done"
  /\ LET sent == result[Caller] = "sent"
         ret == IF channel = "sms" THEN sent /\ has_word ELSE sent
     IN  handler' = IF result[Caller] = "raised"
                    THEN [handler EXCEPT !.pc = "raised", !.outcome = result[Caller]]
                    ELSE [handler EXCEPT !.pc = "returned", !.ret = ret,
                                         !.outcome = result[Caller],
                                         !.decision = callback_decision(ret)]
  /\ call_return
  /\ UNCHANGED <<message_data, response>>

\* The dispatch has ended: a response (for SMS, has_word tells whether its
\* status holds the word looked for) or an exception, which is caught.
handle_result(has_word) ==
  /\ handler.pc = "awaiting"
  /\ pc[Caller] = "done"
  /\ LET sent == result[Caller] = "sent"
         ret == IF channel = "sms" THEN sent /\ has_word ELSE sent
     IN  handler' = [handler EXCEPT !.pc = "returned", !.ret = ret,
                                    !.outcome = result[Caller],
                                    !.decision = callback_decision(ret)]
  /\ call_return
  /\ UNCHANGED <<message_data, response>>

NextHandler ==
  \/ \E m \in Messages(channel) : handle_otp(m)
  \/ handle_dispatch
  \/ \E e \in SmsOutcomes, log \in BOOLEAN : call_sms_attempt(e, log) /\ UNCHANGED hvars
  \/ \E e \in EmailOutcomes, log1 \in BOOLEAN, log2 \in BOOLEAN :
        call_email_attempt(e, log1, log2) /\ UNCHANGED hvars
  \/ Retry(Caller) /\ UNCHANGED <<gvars, hvars>>
  \/ \E has_word \in BOOLEAN : handle_result(has_word)
  \/ \E d \in TickSteps : Tick(d) /\ UNCHANGED <<gvars, hvars>>

SpecHandler == Init /\ [][NextHandler]_vars

\* ------------------------------------------------------ the OTP consumer service
\* OTPConsumerService: the thread that calls start_consuming / stop_consuming
\* (the application's lifespan), one step per statement that another thread can
\* observe, and the consume threads running _consume_messages.  The broker
\* client (app.rabbitmq.consumer) is known by its contract only: each of its
\* calls either takes effect or raises.
Queues == {"email", "sms"}
Alive(i) == thread[i] \in {"test", "consuming"}
Idle == [op |-> "none", pc |-> "idle"]

\* Broker client, from its contract.
broker_connect == connected' = TRUE /\ stop_signal' = FALSE
broker_setup_consumer(q) == callbacks' = callbacks \cup {q}
broker_stop_consuming == stop_signal' = TRUE
broker_disconnect == connected' = FALSE /\ callbacks' = {}

\* The call under way ends: it returns, or raises r = "raised"; failed tells
\* whether a broker call of it raised.
Ends(op, r, failed) ==
  /\ main' = Idle
  /\ last' = [op |-> op, result |-> r, failed |-> failed]
  /\ stops' = IF op = "stop" THEN Min(stops + 1, MaxStops) ELSE stops

\* start_consuming is called: self.consumer.connect()
start_connect(ok) ==
  /\ main = Idle
  /\ IF ok
     THEN /\ broker_connect
          /\ main' = [op |-> "start", pc |-> "setup_email"]
          /\ stops' = 0
          /\ UNCHANGED last
     ELSE /\ main' = Idle
          /\ last' = [op |-> "start", result |-> "raised", failed |-> TRUE]
          /\ stops' = 0
          /\ UNCHANGED <<connected, stop_signal>>
  /\ UNCHANGED <<is_running, consumer_thread, thread, callbacks, joined, started>>

\* self.consumer.setup_consumer(queue, callback), for the email then the SMS queue
start_setup(ok) ==
  /\ main.op = "start" /\ main.pc \in {"setup_email", "setup_sms"}
  /\ IF ok
     THEN /\ broker_setup_consumer(IF main.pc = "setup_email" THEN "email" ELSE "sms")
          /\ main' = [main EXCEPT !.pc = IF main.pc = "setup_email" THEN "setup_sms" ELSE "spawn"]
          /\ UNCHANGED <<last, stops>>
     ELSE /\ Ends("start", "raised", TRUE)
          /\ UNCHANGED callbacks
  /\ UNCHANGED <<is_running, consumer_thread, thread, connected, stop_signal, joined, started>>

\* self.is_running = True; the thread is created and started (Thread.start may raise)
start_spawn(ok) ==
  /\ main.op = "start" /\ main.pc = "spawn"
  /\ \E i \in Threads :
       /\ thread[i] = "none" /\ \A j \in Threads : j < i => thread[j] # "none"
       /\ is_running' = TRUE
       /\ consumer_thread' = i
       /\ thread' = [thread EXCEPT ![i] = IF ok THEN "test" ELSE "unstarted"]
  /\ Ends("start", IF ok THEN "returned" ELSE "raised", ~ok)
  /\ started' = (ok \/ started)
  /\ UNCHANGED <<connected, callbacks, stop_signal, joined>>

\* stop_consuming is called: self.is_running = False
stop_flag ==
  /\ main = Idle
  /\ is_running' = FALSE
  /\ started' = FALSE
  /\ main' = [op |-> "stop", pc |-> "signal"]
  /\ joined' = FALSE
  /\ UNCHANGED <<consumer_thread, thread, connected, callbacks, stop_signal, last, stops>>

\* self.consumer.stop_consuming(); what it raises is caught and the call returns
stop_signalled(ok) ==
  /\ main.op = "stop" /\ main.pc = "signal"
  /\ IF ok
     THEN /\ broker_stop_consuming
          /\ main' = [main EXCEPT !.pc = "disconnect"]
          /\ UNCHANGED <<last, stops>>
     ELSE /\ Ends("stop", "returned", TRUE)
          /\ UNCHANGED stop_signal
  /\ UNCHANGED <<is_running, consumer_thread, thread, connected, callbacks, joined, started>>

\* self.consumer.disconnect(); what it raises is caught and the call returns
stop_disconnect(ok) ==
  /\ main.op = "stop" /\ main.pc = "disconnect"
  /\ IF ok
     THEN /\ broker_disconnect
          /\ main' = [main EXCEPT !.pc = "join"]
          /\ UNCHANGED <<last, stops>>
     ELSE /\ Ends("stop", "returned", TRUE)
          /\ UNCHANGED <<connected, callbacks>>
  /\ UNCHANGED <<is_running, consumer_thread, thread, stop_signal, joined, started>>

\* if self.consumer_thread and self.consumer_thread.is_alive(): join(timeout=5)
stop_join ==
  /\ main.op = "stop" /\ main.pc = "join"
  /\ IF consumer_thread # NoThread /\ Alive(consumer_thread)
     THEN /\ main' = [main EXCEPT !.pc = "joining"]
          /\ UNCHANGED <<last, stops>>
     ELSE Ends("stop", "returned", FALSE)
  /\ UNCHANGED <<is_running, consumer_thread, thread, connected, callbacks, stop_signal, joined, started>>

\* join returns: the thread has ended, or the timeout has passed
stop_joined(timed_out) ==
  /\ main.op = "stop" /\ main.pc = "joining"
  /\ timed_out \/ thread[consumer_thread] = "dead"
  /\ joined' = TRUE
  /\ Ends("stop", "returned", FALSE)
  /\ UNCHANGED <<is_running, consumer_thread, thread, connected, callbacks, stop_signal, started>>

\* _consume_messages: `while self.is_running:` then self.consumer.start_consuming()
loop_test(i) ==
  /\ thread[i] = "test"
  /\ thread' = [thread EXCEPT ![i] = IF is_running THEN "consuming" ELSE "dead"]
  /\ UNCHANGED <<is_running, consumer_thread, connected, callbacks, stop_signal, main, last,
                 stops, joined, started>>

\* self.consumer.start_consuming() returns: the broker was told to stop
consume_returns(i) ==
  /\ thread[i] = "consuming"
  /\ stop_signal
  /\ thread' = [thread EXCEPT ![i] = "test"]
  /\ UNCHANGED <<is_running, consumer_thread, connected, callbacks, stop_signal, main, last,
                 stops, joined, started>>

\* self.consumer.start_consuming() raises: `except Exception:` self.is_running = False
consume_raises(i) ==
  /\ thread[i] = "consuming"
  /\ thread' = [thread EXCEPT ![i] = "dead"]
  /\ is_running' = FALSE
  /\ UNCHANGED <<consumer_thread, connected, callbacks, stop_signal, main, last, stops, joined, started>>

\* is_healthy: self.is_running and self.consumer_thread and self.consumer_thread.is_alive()
is_healthy == is_running /\ consumer_thread # NoThread /\ Alive(consumer_thread)

NextConsumer ==
  \/ \E ok \in BOOLEAN : start_connect(ok) /\ UNCHANGED <<dvars, gvars, rvars, ivars, hvars, avars>>
  \/ \E ok \in BOOLEAN : start_setup(ok) /\ UNCHANGED <<dvars, gvars, rvars, ivars, hvars, avars>>
  \/ \E ok \in BOOLEAN : start_spawn(ok) /\ UNCHANGED <<dvars, gvars, rvars, ivars, hvars, avars>>
  \/ stop_flag /\ UNCHANGED <<dvars, gvars, rvars, ivars, hvars, avars>>
  \/ \E ok \in BOOLEAN : stop_signalled(ok) /\ UNCHANGED <<dvars, gvars, rvars, ivars, hvars, avars>>
  \/ \E ok \in BOOLEAN : stop_disconnect(ok) /\ UNCHANGED <<dvars, gvars, rvars, ivars, hvars, avars>>
  \/ stop_join /\ UNCHANGED <<dvars, gvars, rvars, ivars, hvars, avars>>
  \/ \E timed_out \in BOOLEAN : stop_joined(timed_out) /\ UNCHANGED <<dvars, gvars, rvars, ivars, hvars, avars>>
  \/ \E i \in Threads : loop_test(i) /\ UNCHANGED <<dvars, gvars, rvars, ivars, hvars, avars>>
  \/ \E i \in Threads : consume_returns(i) /\ UNCHANGED <<dvars, gvars, rvars, ivars, hvars, avars>>
  \/ \E i \in Threads : consume_raises(i) /\ UNCHANGED <<dvars, gvars, rvars, ivars, hvars, avars>>

SpecConsumer == Init /\ [][NextConsumer]_vars

\* ------------------------------------------- threads sharing one breaker
\* The services are module-level objects (sms_service, email_service) used by
\* the event loop of the HTTP application and by the OTP consumer thread, which
\* runs its dispatches with asyncio.run.  The breaker methods take no lock, so
\* between two accesses of a field one thread can be preempted by another.
\* Each thread makes one call of a breaker method, on a breaker that some
\* history of dispatches has left; a step is one read or one write of a field.
\* The clock does not advance during the calls.
NoCall == [op |-> "none", line |-> 0, count |-> 0, ret |-> "none"]

InitThreads ==
  /\ channel \in Channels
  /\ now \in {0, Quantum, timeout(channel)}
  /\ \E k \in 0..threshold(channel) :
       /\ failure_count = k
       /\ last_failure_time = IF k = 0 THEN None ELSE 0
  /\ permits = rate_limit(channel)
  /\ pc = [t \in Tasks |-> "idle"]
  /\ attempt = [t \in Tasks |-> 0]
  /\ err = [t \in Tasks |-> "none"]
  /\ result = [t \in Tasks |-> "none"]
  /\ last_check = "none"
  /\ audit = [t \in Tasks |-> 0]
  /\ delivered = [t \in Tasks |-> FALSE]
  /\ streak = NoStreak
  /\ NoRetry /\ NoInput /\ InitConsumer /\ NoHandler
  /\ frames = [call |-> [t \in Tasks |-> NoCall], start |-> Breaker]
  /\ sms_logger = [buffer |-> <<>>]

\* The frame of thread t goes to line l, or returns r.
Goes(t, l) == frames' = [frames EXCEPT !.call[t].line = l]
Returns(t, r) == frames' = [frames EXCEPT !.call[t].line = 0, !.call[t].ret = r]

\* Thread t enters a breaker method.
thread_calls(t, op) ==
  /\ frames.call[t] = NoCall
  /\ frames' = [frames EXCEPT !.call[t] = [NoCall EXCEPT !.op = op, !.line = 1]]
  /\ UNCHANGED <<failure_count, last_failure_time>>

\* _record_failure / CircuitBreaker.record_failure, one field access at a time:
\* self.failure_count += 1 reads the field (1) and writes it (2), then
\* self.last_failure_time = datetime.now() (3).
record_failure_step(t) ==
  /\ frames.call[t].op = "record_failure"
  /\ CASE frames.call[t].line = 1 ->
            /\ frames' = [frames EXCEPT !.call[t].count = failure_count, !.call[t].line = 2]
            /\ UNCHANGED <<failure_count, last_failure_time>>
       [] frames.call[t].line = 2 ->
            /\ failure_count' = frames.call[t].count + 1
            /\ Goes(t, 3)
            /\ UNCHANGED last_failure_time
       [] frames.call[t].line = 3 ->
            /\ last_failure_time' = now
            /\ Returns(t, "returned")
            /\ UNCHANGED failure_count
       [] OTHER -> FALSE

\* _record_success / CircuitBreaker.record_success: the two assignments.
record_success_step(t) ==
  /\ frames.call[t].op = "record_success"
  /\ CASE frames.call[t].line = 1 ->
            /\ failure_count' = 0
            /\ Goes(t, 2)
            /\ UNCHANGED last_failure_time
       [] frames.call[t].line = 2 ->
            /\ last_failure_time' = None
            /\ Returns(t, "returned")
            /\ UNCHANGED failure_count
       [] OTHER -> FALSE

\* _is_circuit_breaker_open / CircuitBreaker.is_open: the test of failure_count
\* (1), the test of last_failure_time (2), the subtraction that reads
\* last_failure_time again after the call of datetime.now() (3; with None it
\* raises TypeError), and the two assignments of the reset (4, 5).
is_open_step(t) ==
  /\ frames.call[t].op = "is_open"
  /\ CASE frames.call[t].line = 1 ->
            /\ IF failure_count >= threshold(channel) THEN Goes(t, 2) ELSE Returns(t, "False")
            /\ UNCHANGED <<failure_count, last_failure_time>>
       [] frames.call[t].line = 2 ->
            /\ IF last_failure_time # None THEN Goes(t, 3) ELSE Returns(t, "False")
            /\ UNCHANGED <<failure_count, last_failure_time>>
       [] frames.call[t].line = 3 ->
            /\ IF last_failure_time = None THEN Returns(t, "TypeError")
               ELSE IF now - last_failure_time < timeout(channel) THEN Returns(t, "True")
               ELSE Goes(t, 4)
            /\ UNCHANGED <<failure_count, last_failure_time>>
       [] frames.call[t].line = 4 ->
            /\ failure_count' = 0
            /\ Goes(t, 5)
            /\ UNCHANGED last_failure_time
       [] frames.call[t].line = 5 ->
            /\ last_failure_time' = None
            /\ Returns(t, "False")
            /\ UNCHANGED failure_count
       [] OTHER -> FALSE

\* A breaker method touches the two fields of the breaker only.
BreakerOnly ==
  UNCHANGED <<channel, now, permits, pc, attempt, err, result, last_check, gvars, rvars,
              ivars, cvars, hvars, sms_logger>>

NextThreads ==
  \/ \E t \in Tasks, op \in {"record_failure", "record_success", "is_open"} : thread_calls(t, op) /\ BreakerOnly
  \/ \E t \in Tasks : record_failure_step(t) /\ BreakerOnly
  \/ \E t \in Tasks : record_success_step(t) /\ BreakerOnly
  \/ \E t \in Tasks : is_open_step(t) /\ BreakerOnly

SpecThreads == InitThreads /\ [][NextThreads]_vars

\* ------------------------------------------------------- the audit logger
\* AsyncCSVLogger (the object sms_logger): log_sms and log_sms_async put an
\* entry into the buffer, _flush_buffer empties the buffer into the log file
\* (run by the flush thread every flush_interval, by flush(), and by
\* log_sms_async when the buffer is full), cleanup_old_logs_async reads the
\* file and writes back the rows it retains.  Entries are numbered in the
\* order they are handed over; all of them are recent.  A line of the file is
\* known by its first field (the header, an expired or a recent timestamp) and
\* by the entries whose text it holds.  The statements inside `with
\* self.buffer_lock` do not block, so lock, statements and release are one
\* step, except where the lock is still held at an await.
MaxEntries == 3          \* entries handed to the logger in one behaviour
buffer_size == 2         \* len(buffer) at which a write triggers a flush (100 in the code)
Flushers == {"flush_worker", "flush", "log_sms_async"}
Row(k) == [first |-> "recent", entries |-> <<k>>]

InitLogger ==
  /\ InitDispatch /\ NoRetry /\ NoInput /\ InitConsumer /\ NoHandler
  /\ frames = [call |-> <<>>]
  /\ sms_logger =
       [buffer |-> <<>>, buffer_lock |-> "free", logged |-> 0, written |-> {},
        log_file |-> [lines |-> <<[first |-> "header", entries |-> <<>>],
                                  [first |-> "expired", entries |-> <<0>>]>>,
                      eol |-> TRUE],
        flush |-> [f \in Flushers |-> [pc |-> "idle", items_to_write |-> <<>>]],
        cleanup |-> [pc |-> "idle", lines |-> <<>>]]

\* The file after the rows of items were appended, each followed by a newline:
\* when the file does not end with a newline the first row continues its last line.
appended(file, items) ==
  IF items = <<>> THEN file
  ELSE IF file.eol
  THEN [lines |-> file.lines \o [i \in 1..Len(items) |-> Row(items[i])], eol |-> TRUE]
  ELSE [lines |-> [file.lines EXCEPT ![Len(file.lines)].entries = @ \o <<items[1]>>]
                    \o [i \in 1..(Len(items) - 1) |-> Row(items[i + 1])],
        eol |-> TRUE]

\* cleanup_old_logs_async: the header and the lines whose timestamp is not
\* before the cutoff date.
filtered_lines(lines) ==
  <<lines[1]>> \o SelectSeq(Tail(lines), LAMBDA l : l.first # "expired")

\* The logger changes nothing but itself.
LoggerOnly == UNCHANGED <<dvars, gvars, rvars, ivars, cvars, hvars, frames>>

\* log_sms, as _log_sms_async calls it in an executor thread.  With a full
\* buffer it calls asyncio.create_task, which raises RuntimeError in a thread
\* that runs no event loop, after the entry was put into the buffer.
log_sms ==
  /\ sms_logger.logged < MaxEntries
  /\ sms_logger.buffer_lock = "free"
  /\ sms_logger' = [sms_logger EXCEPT !.logged = @ + 1,
                                      !.buffer = Append(@, sms_logger.logged + 1)]

\* log_sms_async: with a full buffer it awaits _flush_buffer inside the
\* `with self.buffer_lock` block, the lock held.
log_sms_async ==
  /\ sms_logger.logged < MaxEntries
  /\ sms_logger.buffer_lock = "free"
  /\ sms_logger.flush["log_sms_async"].pc = "idle"
  /\ LET full == Len(sms_logger.buffer) + 1 >= buffer_size IN
     sms_logger' = [sms_logger EXCEPT
                      !.logged = @ + 1,
                      !.buffer = Append(@, sms_logger.logged + 1),
                      !.buffer_lock = IF full THEN "log_sms_async" ELSE @,
                      !.flush["log_sms_async"].pc = IF full THEN "lock" ELSE @]

\* What flusher f leaves when its _flush_buffer returns: log_sms_async then
\* leaves its `with` block and releases the lock.
flushed(f, l) ==
  [l EXCEPT !.flush[f] = [pc |-> "idle", items_to_write |-> <<>>],
            !.buffer_lock = IF f = "log_sms_async" THEN "free" ELSE @]

\* _flush_buffer, the block under the lock: return if the buffer is empty,
\* else take the items and clear the buffer.
flush_take(f) ==
  /\ sms_logger.flush[f].pc = IF f = "log_sms_async" THEN "lock" ELSE "idle"
  /\ sms_logger.buffer_lock = "free"
  /\ sms_logger' =
       IF sms_logger.buffer = <<>> THEN flushed(f, sms_logger)
       ELSE [sms_logger EXCEPT
               !.flush[f] = [pc |-> "write", items_to_write |-> sms_logger.buffer],
               !.buffer = <<>>]

\* _write_to_file_async: the rows are appended, or the exception of the open or
\* of a write is caught and printed (ok = FALSE).
flush_write(f, ok) ==
  /\ sms_logger.flush[f].pc = "write"
  /\ LET items == sms_logger.flush[f].items_to_write IN
     sms_logger' =
       IF ok
       THEN flushed(f, [sms_logger EXCEPT
                          !.log_file = appended(@, items),
                          !.written = @ \cup {items[i] : i \in 1..Len(items)}])
       ELSE flushed(f, sms_logger)

\* cleanup_old_logs_async up to the end of the read.
cleanup_read ==
  /\ sms_logger.cleanup.pc = "idle"
  /\ sms_logger' =
       IF Len(sms_logger.log_file.lines) <= 1 THEN sms_logger
       ELSE [sms_logger EXCEPT
               !.cleanup = [pc |-> "write", lines |-> sms_logger.log_file.lines]]

\* cleanup_old_logs_async, the file written back: '\n'.join(filtered_lines),
\* with no newline at the end.
cleanup_write ==
  /\ sms_logger.cleanup.pc = "write"
  /\ sms_logger' =
       [sms_logger EXCEPT
          !.log_file = [lines |-> filtered_lines(sms_logger.cleanup.lines), eol |-> FALSE],
          !.cleanup = [pc |-> "idle", lines |-> <<>>]]

NextLogger ==
  \/ log_sms /\ LoggerOnly
  \/ log_sms_async /\ LoggerOnly
  \/ \E f \in Flushers : flush_take(f) /\ LoggerOnly
  \/ \E f \in Flushers, ok \in BOOLEAN : flush_write(f, ok) /\ LoggerOnly
  \/ cleanup_read /\ LoggerOnly
  \/ cleanup_write /\ LoggerOnly

SpecLogger == InitLogger /\ [][NextLogger]_vars

\* The flushes are scheduled fairly: a _flush_buffer that can take the lock
\* does, and a write that was begun ends.
SpecLoggerFair ==
  /\ SpecLogger
  /\ \A f \in Flushers :
       /\ WF_vars(flush_take(f) /\ LoggerOnly)
       /\ WF_vars(\E ok \in BOOLEAN : flush_write(f, ok) /\ LoggerOnly)

\* =================================================================== claims
\* The step in which task t calls send_sms / send_email (the breaker is checked in it).
DispatchStep(t) == pc[t] = "idle" /\ pc'[t] # "idle"
\* The step in which a dispatch of task t ends after a transport call.
SuccessStep(t) == pc[t] = "sending" /\ pc'[t] = "done" /\ result'[t] = "sent"
FailureStep(t) == pc[t] = "sending" /\ pc'[t] = "done" /\ result'[t] \in {"failed", "raised"}
\* failureCount >= threshold and the time since lastFailureTime < openDuration.
InOpenWindow ==
  /\ failure_count >= threshold(channel)
  /\ last_failure_time # None
  /\ now - last_failure_time < timeout(channel)
\* The dispatches that hold a permit: inside the `async with` block.
Holders == {t \in Tasks : pc[t] \in {"sending", "backoff"}}

\* C1: the breaker check made by a dispatch call answers "open" (the call is
\* rejected with the circuit-open error) if and only if, at that moment,
\* failureCount >= threshold and the time elapsed since lastFailureTime is
\* strictly less than openDuration.
C1_IsOpenIff ==
  [][\A t \in Tasks :
       DispatchStep(t) =>
         ((pc'[t] = "done" /\ result'[t] = "circuit_open" /\ last_check' = "open")
            <=> InOpenWindow)]_vars
C1_Witness ==
  /\ last_check = "open"
  /\ \E t \in Tasks : pc[t] = "done" /\ result[t] = "circuit_open"

\* C2 as stated: once failures have brought failureCount to the threshold or
\* beyond, isOpen is true at once, and it does not become false before
\* openDuration has elapsed since the last recorded failure, whatever happens
\* in between.
C2_OpenUntilTimeout ==
  [][/\ (failure_count' > failure_count /\ failure_count' >= threshold(channel))
          => InOpenWindow'
     /\ (InOpenWindow /\ ~InOpenWindow')
          => now' - last_failure_time >= timeout(channel)]_vars

\* C2 amended: once failures have brought failureCount to the threshold or
\* beyond, isOpen is true at once, and it becomes false only when openDuration
\* has elapsed since the last recorded failure or when a dispatch of the channel
\* that had passed the breaker check earlier completes successfully
\* (record_success closes the breaker at once).
C2_OpenUntilTimeoutOrSuccess ==
  [][/\ (failure_count' > failure_count /\ failure_count' >= threshold(channel))
          => InOpenWindow'
     /\ (InOpenWindow /\ ~InOpenWindow')
          => \/ now' - last_failure_time >= timeout(channel)
             \/ \E t \in Tasks : SuccessStep(t)]_vars
C2_Witness ==
  /\ InOpenWindow
  /\ \E t \in Tasks : pc[t] \in {"waiting", "sending", "backoff"}

\* C3: lazy reset.  A breaker check made with failureCount >= threshold and
\* elapsed >= openDuration answers "not open" and in the same step sets
\* failureCount to 0 and clears lastFailureTime; a check made with
\* failureCount < threshold, or inside the open window, leaves both unchanged.
C3_LazyReset ==
  [][\A t \in Tasks :
       DispatchStep(t) =>
         /\ (/\ failure_count >= threshold(channel)
             /\ last_failure_time # None
             /\ now - last_failure_time >= timeout(channel))
              => /\ result'[t] # "circuit_open"
                 /\ last_check' = "reset"
                 /\ failure_count' = 0
                 /\ last_failure_time' = None
         /\ (failure_count < threshold(channel) \/ InOpenWindow)
              => /\ failure_count' = failure_count
                 /\ last_failure_time' = last_failure_time
                 /\ last_check' # "reset"]_vars
C3_Witness ==
  /\ last_check = "reset"
  /\ failure_count = 0
  /\ last_failure_time = None
  /\ now >= timeout(channel)

\* C4: recordFailure adds exactly 1 to failureCount and sets lastFailureTime to
\* the current time; recordSuccess sets failureCount to 0 and clears
\* lastFailureTime; the initial state is closed with failureCount = 0; in every
\* reachable state failureCount >= 0, and failureCount > 0 implies
\* lastFailureTime is set.
C4_RecordEffects ==
  /\ (failure_count = 0 /\ last_failure_time = None /\ ~InOpenWindow)
  /\ [](LET f == IF channel = "sms" THEN _record_failure(Breaker, now)
                 ELSE record_failure(Breaker, now)
            s == IF channel = "sms" THEN _record_success(Breaker)
                 ELSE record_success(Breaker)
        IN /\ f.failure_count = failure_count + 1
           /\ f.last_failure_time = now
           /\ s.failure_count = 0
           /\ s.last_failure_time = None
           /\ failure_count >= 0
           /\ (failure_count > 0 => last_failure_time # None))
  /\ [][\A t \in Tasks :
          /\ SuccessStep(t) => (failure_count' = 0 /\ last_failure_time' = None)
          /\ FailureStep(t) => (failure_count' > failure_count /\ last_failure_time' = now)]_vars
C4_Witness ==
  /\ failure_count > 0
  /\ last_failure_time = now
  /\ \E t \in Tasks : pc[t] = "done" /\ result[t] \in {"failed", "raised"}

\* C5: at every point of every interleaving the number of dispatches that hold
\* a permit is at most the configured capacity, and 0 <= permits <= capacity;
\* a dispatch that found no permit has made no transport call.
C5_AtMostCapacity ==
  /\ Cardinality(Holders) <= rate_limit(channel)
  /\ 0 <= permits /\ permits <= rate_limit(channel)
  /\ \A t \in Tasks : pc[t] = "waiting" => attempt[t] = 0
C5_Witness ==
  /\ permits = 0
  /\ Cardinality(Holders) = rate_limit(channel)
  /\ \E t \in Tasks : pc[t] = "waiting"

\* C6: no permit is leaked: the permits available plus the permits held always
\* make the capacity, a dispatch that has ended holds none, and so with no
\* dispatch in flight all the permits are available, whatever the exit path.
C6_NoPermitLeak ==
  /\ permits + Cardinality(Holders) = rate_limit(channel)
  /\ (Holders = {}) => permits = rate_limit(channel)
C6_Witness ==
  /\ Holders = {}
  /\ permits = rate_limit(channel)
  /\ \E t \in Tasks : pc[t] = "done" /\ attempt[t] >= 1 /\ result[t] \in {"failed", "raised"}
  /\ \E t \in Tasks : pc[t] = "done" /\ attempt[t] >= 1 /\ result[t] = "sent"

\* C7: a dispatch makes at most retry_attempts transport calls: no retry is
\* pending once the attempt number has reached retry_attempts.
C7_AtMostMaxAttempts ==
  \A t \in Tasks :
    /\ attempt[t] <= retry_attempts(channel)
    /\ pc[t] = "backoff" => attempt[t] < retry_attempts(channel)
C7_Witness ==
  \E t \in Tasks :
    pc[t] = "done" /\ result[t] = "failed" /\ attempt[t] = retry_attempts(channel)

\* The errors the specification classifies as transient: network timeout,
\* connection failure, malformed or broken protocol exchange.
TransientErrors ==
  {"TimeoutException", "ConnectError", "RemoteProtocolError",
   "SMTPServerDisconnected", "ConnectionError", "TimeoutError"}

\* C8: a retry is attempted only after a transient-classified error: no
\* dispatch waits to retry after an authentication failure or another terminal
\* error, on either channel.
C8_RetryOnlyTransient ==
  \A t \in Tasks : pc[t] = "backoff" => err[t] \in TransientErrors

\* C9: the wait before the next attempt is clamp(2^(n-1), 4, 10) seconds: never
\* below the floor 4 (so never zero), never above the cap 10, and never shorter
\* than the wait before the previous attempt.
C9_Backoff ==
  [][retry_state'.phase = "sleep" =>
       LET n == retry_state.attempt_number
           e == 2^(n - 1)
       IN /\ retry_state'.sleep = (IF e < 4 THEN 4 ELSE IF e > 10 THEN 10 ELSE e)
          /\ retry_state'.sleep >= 4
          /\ retry_state'.sleep <= 10
          /\ retry_state'.sleep > 0
          /\ retry_state'.sleep >= retry_state.sleep]_vars
C9_Witness ==
  /\ retry_state.phase = "sleep"
  /\ retry_state.attempt_number >= 6
  /\ retry_state.sleep = 10

\* C10: a dispatch called while the breaker is open fails at once with the
\* circuit-open error: no transport call, no permit taken, failureCount and
\* lastFailureTime unchanged.
C10_OpenShortCircuits ==
  [][\A t \in Tasks :
       (DispatchStep(t) /\ InOpenWindow) =>
         /\ pc'[t] = "done"
         /\ result'[t] = "circuit_open"
         /\ attempt'[t] = 0
         /\ permits' = permits
         /\ failure_count' = failure_count
         /\ last_failure_time' = last_failure_time]_vars
C10_Witness ==
  /\ InOpenWindow
  /\ \E t \in Tasks : pc[t] = "done" /\ result[t] = "circuit_open" /\ attempt[t] = 0

\* The run of failed dispatches is threshold long and its last one ended less
\* than openDuration ago.
AfterThresholdFailures(k) ==
  /\ k >= threshold(channel)
  /\ streak.at # None
  /\ now - streak.at < timeout(channel)
\* The call made in this step is rejected by the breaker without a transport call.
ShortCircuits(t) ==
  /\ pc'[t] = "done"
  /\ result'[t] = "circuit_open"
  /\ attempt'[t] = 0

\* C11 as stated: after threshold consecutive dispatches have each ended in a
\* transport failure, and less than openDuration after the last of them, the
\* next dispatch call short-circuits with the circuit-open error and makes no
\* transport call.
C11_ThresholdFailuresOpen ==
  [][(DispatchStep(Caller) /\ AfterThresholdFailures(streak.n)) => ShortCircuits(Caller)]_vars

\* C11 amended: the same, for threshold consecutive failed dispatches none of
\* which was admitted by a breaker check that reset the breaker (the open window
\* having elapsed): the failures count from the last reset.
C11_ThresholdFailuresSinceResetOpen ==
  [][(DispatchStep(Caller) /\ AfterThresholdFailures(streak.since_reset))
       => ShortCircuits(Caller)]_vars
C11_Witness ==
  /\ AfterThresholdFailures(streak.since_reset)
  /\ streak.n = threshold(channel)
  /\ pc[Caller] = "done" /\ result[Caller] = "circuit_open" /\ attempt[Caller] = 0

\* The step in which the call of task t is rejected by _validate_sms_request:
\* it ends at once, with no permit taken and no transport call made.
ValidationRejects(t) ==
  /\ DispatchStep(t)
  /\ result'[t] = "invalid"

C13_OneAuditEntryPerDispatch ==
  pc[Caller] = "done" => audit[Caller] = 1

\* C14: no exception other than the service error of the channel leaves a
\* dispatch: every call that has ended has returned its result object or has
\* raised SMSServiceError / EmailServiceError, whatever the transport did.
C14_ResultOrServiceError ==
  \A t \in Tasks : pc[t] = "done" => result[t] \in {"sent"} \cup ServiceErrors

\* C15: a failure of the audit sink does not change the outcome of a dispatch:
\* once the transport has accepted the message the dispatch returns Sent and
\* has recorded a success on the breaker (no failure recorded, nothing raised),
\* whether or not the audit entry could be written.
C15_AuditFailureKeepsOutcome ==
  (pc[Caller] = "done" /\ delivered[Caller]) =>
    /\ result[Caller] = "sent"
    /\ failure_count = 0
    /\ last_failure_time = None

\* C16: the recipient in the payload handed to the SMS transport is the
\* PhoneNormalizer output for the recipient of the request, whatever accepted
\* form the request has it in.
C16_PayloadToIsNormalized ==
  wire.status = "payload" => wire.to = convert_phone_for_melipayamak(request.to)

\* C17: in an email dispatch the default subject is sent exactly when the caller
\* supplied no subject and the default body exactly when the caller supplied no
\* body; what the caller supplied is what is sent; the subject logged is the
\* subject sent.
C17_DefaultsOnlyForMissing ==
  wire.status = "message" =>
    /\ wire.subject = (IF Truthy(request.subject) THEN request.subject ELSE DefaultSubject)
    /\ wire.body = (IF Truthy(request.body) THEN request.body ELSE DefaultBody)
    /\ wire.log_subject = wire.subject

\* ------------------------------------------------------------------ C18 .. C20
\* No consume thread has been started yet: the service was Stopped each time
\* start_consuming was called.
NeverStarted == \A i \in Threads : thread[i] \in {"none", "unstarted"}

\* C18: when start_consuming fails on the way from Stopped, the service is left
\* as in Stopped: no connection, no registered callback, the running flag
\* false and no consume thread.
C18_FailedStartLeavesStopped ==
  (main = Idle /\ last.op = "start" /\ last.result = "raised" /\ NeverStarted)
    => /\ ~is_running
       /\ ~connected
       /\ callbacks = {}
       /\ \A i \in Threads : ~Alive(i)

\* A step of a stop_consuming call.
StopStep == main.op = "stop" \/ (main = Idle /\ main'.op = "stop")

\* C19: stop_consuming never raises, the running flag is false once it has
\* returned, and a second stop_consuming after the first (no start_consuming
\* in between) leaves the service's state as the first one left it.
C19_StopIdempotent ==
  /\ [](last.op = "stop" => last.result = "returned")
  /\ []((main = Idle /\ last.op = "stop") => ~is_running)
  /\ [][(StopStep /\ stops >= 1)
          => UNCHANGED <<is_running, consumer_thread, connected, callbacks>>]_vars

\* C20: stop_consuming never closes the broker connection while the consume
\* thread is alive and has not been joined.
C20_JoinBeforeDisconnect ==
  [][(main.op = "stop" /\ connected /\ ~connected')
       => \/ consumer_thread = NoThread
          \/ ~Alive(consumer_thread)
          \/ joined]_vars

\* ------------------------------------------------------------------ C21 .. C30
\* C21: in every reachable state is_healthy() is true exactly when the consumer
\* is Consuming (a start_consuming has returned and stop_consuming was not
\* called since) and the consume thread it holds is alive.
C21_HealthyIffConsuming ==
  is_healthy <=> (started /\ consumer_thread # NoThread /\ Alive(consumer_thread))

\* C22: a consume thread that has been started ends only after stop_consuming
\* was called: while the consumer is started, no step takes a live consume
\* thread to its end.
C22_LoopEndsOnlyOnStop ==
  [][\A i \in Threads : (Alive(i) /\ thread'[i] = "dead") => ~started]_vars

\* The message handled lacks its identifier or its code (missing or empty).
BadEvent == ~Has(message_data, "identifier") \/ ~Has(message_data, "otp_code")

\* C23: no exception leaves the handler: whatever the message and however the
\* dispatch ends, the handler returns, and when the dispatch raised it returns
\* the failure value, on which the message is negatively acknowledged.
C23_HandlerNeverRaises ==
  /\ handler.pc # "raised"
  /\ (handler.pc = "returned" /\ handler.outcome \notin {"none", "sent"})
       => (~handler.ret /\ handler.decision = "nack")
C23_Witness ==
  /\ handler.pc = "returned"
  /\ handler.outcome = "raised"
  /\ ~handler.ret

\* C24: a message whose identifier or code is missing or empty is acknowledged
\* (dropped), and no dispatch and no transport call is made for it.
C24_BadEventAckedAndDropped ==
  (handler.pc = "returned" /\ BadEvent)
    => /\ handler.decision = "ack"
       /\ handler.dispatches = 0
       /\ pc[Caller] = "idle" /\ attempt[Caller] = 0

\* The dispatch made for the message was refused by the open breaker or failed
\* at the transport.
TransportFailure == handler.outcome \in {"circuit_open", "failed", "raised"}

\* C25: of the messages whose handling failed, those with bad event data are
\* acknowledged and those whose dispatch was refused by the breaker or failed
\* at the transport are negatively acknowledged.
C25_DecisionFollowsCause ==
  (handler.pc = "returned" /\ ~handler.ret)
    => /\ BadEvent => handler.decision = "ack"
       /\ TransportFailure => handler.decision = "nack"

\* C26: for an email message with identifier and code the handler builds a
\* request to the identifier whose subject and body contain the code, calls
\* the dispatcher once, and returns True (the message is acknowledged) when
\* the dispatch returned a sent response.
C26_EmailOtpRequestAndAck ==
  (channel = "email" /\ handler.pc = "returned" /\ ~BadEvent)
    => /\ handler.request.to = message_data["identifier"]
       /\ Contains(handler.request.subject, message_data["otp_code"])
       /\ Contains(handler.request.body, message_data["otp_code"])
       /\ handler.dispatches = 1
       /\ (handler.outcome = "sent" => (handler.ret /\ handler.decision = "ack"))
\* C26 amended: the same for an identifier that is a well-formed address; for
\* any other non-empty identifier no request is built, the dispatcher is not
\* called and the handler returns False.
C26_ValidAddressRequestAndAck ==
  (channel = "email" /\ handler.pc = "returned" /\ ~BadEvent)
    => IF EmailStr(message_data["identifier"])
       THEN /\ handler.request.to = message_data["identifier"]
            /\ Contains(handler.request.subject, message_data["otp_code"])
            /\ Contains(handler.request.body, message_data["otp_code"])
            /\ handler.dispatches = 1
            /\ (handler.outcome = "sent" => (handler.ret /\ handler.decision = "ack"))
       ELSE /\ handler.request = NoRequest
            /\ handler.dispatches = 0
            /\ ~handler.ret
C26_Witness ==
  /\ channel = "email"
  /\ handler.pc = "returned"
  /\ handler.outcome = "sent"
  /\ handler.decision = "ack"

\* C27: the normalizer applied to its own result returns that result, for
\* every input.
C27_NormalizerIdempotent ==
  wire.status = "renormalized" => wire.to = wire.first
C27_Witness ==
  /\ wire.status = "renormalized"
  /\ AcceptedFormat(request.to)
  /\ wire.first # request.to
  /\ wire.to = wire.first

\* C28: for an input in an accepted format the normalizer returns the local
\* form, 09 followed by 9 digits.
C28_OutputIsLocalForm ==
  (wire.status = "normalized" /\ AcceptedFormat(request.to))
    => MatchPrefixDigits(wire.to, <<"0", "9">>, 9)

\* C29: the HTTP SMS route answers a validation failure and a circuit-open
\* rejection with a 4xx status, and an unexpected exception raised inside the
\* send with a 5xx status.
C29_HttpStatusFollowsCause ==
  response.status_code # 0
    => /\ response.cause \in {"invalid", "circuit_open"}
            => response.status_code \in 400..499
       /\ response.cause = "other" => response.status_code \in 500..599

\* The next step of dispatch u can be taken.
NotSuspended(u) ==
  /\ pc[u] = "idle" =>
       IF channel = "sms"
       THEN ENABLED send_sms(u, [to |-> <<"0", "9", "1", "2", "3", "4", "5", "6", "7", "8", "9">>,
                                text |-> Text(5, 5)])
       ELSE ENABLED send_email(u)
  /\ pc[u] = "sending" =>
       IF channel = "sms"
       THEN ENABLED sms_attempt(u, "ok")
       ELSE ENABLED email_attempt(u, "ok", TRUE, TRUE)
  /\ pc[u] = "done" => ENABLED Return(u)

C32_SentSmsIsAcknowledged ==
  (channel = "sms" /\ handler.pc = "returned" /\ handler.outcome = "sent")
    => (handler.ret /\ handler.decision = "ack")

\* C33: the step that ends a dispatch in a final failure, whatever the kind of
\* failure, raises failure_count by exactly one.
C33_OneIncrementPerFailure ==
  [][\A t \in Tasks : FailureStep(t) => failure_count' = failure_count + 1]_vars

\* C34: in the step in which a dispatch starts its first transport attempt
\* (from the call, or from the wait for a permit) the breaker is not open:
\* failure_count < threshold or the open window has elapsed.
C34_NoTransportWhileOpen ==
  [][\A t \in Tasks :
       (pc[t] \in {"idle", "waiting"} /\ pc'[t] = "sending") => ~InOpenWindow']_vars

\* C35: whenever no start_consuming / stop_consuming call is under way, at most
\* one consume loop is running and consumer_thread is that loop's thread.
C35_AtMostOneLoop ==
  main = Idle =>
    /\ Cardinality({i \in Threads : Alive(i)}) <= 1
    /\ \A i \in Threads : Alive(i) => consumer_thread = i

\* C39: for a 10-digit national number n the inputs 98n, +98n and 0098n are
\* normalized to 0n, and the local form 0n with n beginning with 9 is
\* normalized to itself.
C39_SubscriberNumberPreserved ==
  wire.status = "normalized" =>
    \A p \in {<<"9", "8">>, <<"+", "9", "8">>, <<"0", "0", "9", "8">>, <<"0">>} :
      LET n == Slice(request.to, Len(p)) IN
        (/\ StartsWith(request.to, p)
         /\ Len(n) = 10 /\ IsDigits(n)
         /\ p = <<"0">> => n[1] = "9")
          => wire.to = <<"0">> \o n

\* What the call of method op returns and the fields it leaves when it runs
\* alone on breaker b at time t.
Alone(op, b, t) ==
  CASE op = "record_failure" ->
         [ret |-> "returned",
          b |-> IF channel = "sms" THEN _record_failure(b, t) ELSE record_failure(b, t)]
    [] op = "record_success" ->
         [ret |-> "returned",
          b |-> IF channel = "sms" THEN _record_success(b) ELSE record_success(b)]
    [] OTHER ->
         LET o == IF channel = "sms" THEN _is_circuit_breaker_open(b, t) ELSE is_open(b, t)
         IN [ret |-> IF o.ret THEN "True" ELSE "False", b |-> o.b]
\* The fields and the values returned after the calls of the threads order[1],
\* .., order[k] were made one after the other from the fields at the start.
RECURSIVE Serial(_, _)
Serial(order, k) ==
  IF k = 0 THEN [b |-> frames.start, ret |-> [t \in Tasks |-> "none"]]
  ELSE LET s == Serial(order, k - 1)
           o == Alone(frames.call[order[k]].op, s.b, now)
       IN [b |-> o.b, ret |-> [s.ret EXCEPT ![order[k]] = o.ret]]
Orders == {o \in [Tasks -> Tasks] : \A t, u \in Tasks : o[t] = o[u] => t = u}

\* C31: when the threads have all returned from their breaker calls, the fields
\* of the breaker and the values the calls returned are those of the same calls
\* made one after the other in some order (so no increment is lost).
C31_BreakerCallsSerializable ==
  (\A t \in Tasks : frames.call[t].ret # "none") =>
     \E order \in Orders :
        LET s == Serial(order, MaxTasks)
        IN s.b = Breaker /\ \A t \in Tasks : s.ret[t] = frames.call[t].ret

\* Entry k is in the log file, and how many times.
Copies(k) ==
  LET lines == sms_logger.log_file.lines
      in_line(l) == Cardinality({i \in 1..Len(l.entries) : l.entries[i] = k})
      RECURSIVE upto(_)
      upto(n) == IF n = 0 THEN 0 ELSE upto(n - 1) + in_line(lines[n])
  IN upto(Len(lines))

\* C36: every recent row that a flush has appended is in the file, whatever
\* cleanup_old_logs_async does meanwhile, and the first line is the header.
C36_CleanupKeepsRecentRows ==
  /\ \A k \in sms_logger.written : Copies(k) >= 1
  /\ sms_logger.log_file.lines[1].first = "header"

\* C37: under fair scheduling of the flushes, every entry handed to the logger
\* is eventually in the log file, exactly once.
C37_EveryEntryWrittenOnce ==
  \A k \in 1..MaxEntries : (sms_logger.logged >= k) ~> (Copies(k) = 1)

\* C38: every call of log_sms_async ends with the buffer lock released: a lock
\* that is held is eventually free.
C38_LogSmsAsyncReleasesLock ==
  (sms_logger.buffer_lock # "free") ~> (sms_logger.buffer_lock = "free")
====
